---- MODULE Spec2Model ----
(***************************************************************************)
(* klar: an on-screen display for brightness, power and volume.            *)
(*                                                                         *)
(* The module models the status monitors of src/klar/__init__.py (the same *)
(* classes are repeated in src/klar/_monitor.py), the debounce table of    *)
(* PulseAudioMonitor with its background listener thread and the GLib main *)
(* loop, and the GenericTransition ramp.                                   *)
(*                                                                         *)
(* Conventions                                                             *)
(*   - volumes are hundredths (0.33 is 33, 1.0 is 100), opacities are      *)
(*     thousandths (0.01 is 10, 1.0 is 1000), times are milliseconds;      *)
(*   - a GLib source id is a positive integer, NoTimer (0) stands for      *)
(*     Python's None / a missing dictionary key;                           *)
(*   - a `with self._timers_lock:` block is one atomic step: the lock      *)
(*     makes the two blocks mutually exclusive, everything outside the     *)
(*     blocks interleaves freely.                                          *)
(***************************************************************************)
EXTENDS Integers, Sequences, FiniteSets, TLC

\* ------------------------------------------------------------------ bounds
MaxEvents == 3
TickMs == 5
MaxHandlerTicks == 1
MaxDevices == 2
MaxCalls == 3
MaxBrightness == 255
MaxNotifs == 3
MaxSubdirs == 2

\* ------------------------------------------------------- program constants
DEBOUNCE_MS == 20
VolOveramplified == 100
VolHigh == 66
VolMedium == 33

NoTimer == 0
Indices == {0, 1}
Volumes == {0, 33, 66, 100, 120}
SinkNames == {"", "alsa_output.a", "alsa_output.b"}

ICON_MUTED == "audio-volume-muted-symbolic"
ICON_LOW == "audio-volume-low-symbolic"
ICON_MEDIUM == "audio-volume-medium-symbolic"
ICON_HIGH == "audio-volume-high-symbolic"
ICON_OVER == "audio-volume-overamplified-symbolic"
NoIcon == "none"

Min(a, b) == IF a < b THEN a ELSE b

VARIABLES
    \* PulseAudioMonitor
    is_started,      \* _is_started
    listen_thread,   \* _pulse_event_listen_thread: "new", "alive" or "dead"
    timers,          \* _timers: device index -> source id (NoTimer: no key)
    volume, mute, current_sink,
    pulse_model,     \* the StatusModel made by new_model: [exists, value, icon]
    \* the GLib main context, as far as the pulse monitor uses it
    sources,         \* timeout sources attached and not yet dispatched
    nextSourceId,
    \* the two threads
    bgpc, bgIndex,   \* listener thread inside _on_pulse_event_change
    bgTicks,         \* ticks the listener thread has waited for the lock
    mainpc, firing,  \* main loop inside _on_pulse_event_timeout
    \* observation of the run
    events, firstIndex, sinceLast, burstOk,
    queries, eventsAtQuery, assigned, outcome,
    raised           \* the last call modelled left by an exception

VARIABLES
    \* BrightnessMonitor (FileMonitor)
    file,            \* _file is not None
    file_monitor,    \* _file_monitor is not None
    bright_model,    \* a StatusModel was returned by new_model
    \* PowerMonitor
    ac_proxy,        \* _dbus_ac_proxy: position of the device, 0 for None
    batter_proxy,    \* _dbus_batter_proxy: position of the device, 0 for None
    ac_handler,      \* the g-properties-changed handler is connected
    connected,
    percentage,      \* the battery proxy's cached Percentage
    power_model,     \* [exists, icon]
    power_indicator, \* a StatusIndicator was added to the window
    \* observation of the run
    power_devices,   \* the device types EnumerateDevices returned
    power_activated,
    power_event,     \* the last g-properties-changed delivery
    start_called,    \* monitor -> start() has been called
    last_call        \* the last call of the Monitor contract and its result

brightVars == <<file, file_monitor, bright_model>>

powerVars == <<ac_proxy, batter_proxy, ac_handler, connected, percentage,
               power_model, power_indicator, power_devices, power_activated,
               power_event>>

apiVars == <<start_called, last_call>>

VARIABLES
    \* configuration read by KlarWindow.show_hide_duration
    reveal_duration, hide_duration,
    \* GenericTransition (KlarWindow.set_visible)
    trans_timer_id,  \* _timer_id, NoTimer for None
    \* the GLib main context, as far as the transition uses it
    idle_queue,      \* closures given to GLib.idle_add, in order
    anim_sources,    \* do_animation closures given to GLib.timeout_add
    nextAnimId,
    \* the window behind setter and method
    opacity,         \* the last value given to set_opacity
    visible,         \* the last value given to Gtk.Window.set_visible
    \* observation of the run
    method_calls,    \* the arguments of every call of the wrapped method
    ncalls,          \* invocations of the transition so far
    last_invoke,     \* the last invocation: [visible, duration, target]
    action_log,      \* the calls of the wrapped method: [call, phase, arg]
    removed          \* ids of sources removed while still attached

transVars == <<reveal_duration, hide_duration, trans_timer_id, idle_queue,
               anim_sources, nextAnimId, opacity, visible, method_calls,
               ncalls, last_invoke, action_log, removed>>

pulseState == <<is_started, listen_thread, timers, volume, mute, current_sink,
                pulse_model, sources, nextSourceId, bgpc, bgIndex, bgTicks,
                mainpc, firing, events, firstIndex, sinceLast, burstOk,
                queries, eventsAtQuery, assigned, outcome>>

pulseVars == <<pulseState, raised>>

VARIABLES
    \* the brightness value, from the sysfs file to the status bar
    max_brightness,  \* BrightnessMonitor.max_brightness
    levels,          \* config levels: StatusModel.levels, StatusBar.levels
    exponent,        \* config exponent of the brightness monitor
    file_data,       \* the text of the brightness file, as characters
    written,         \* the integer the writer of the file stored
    brightness,      \* BrightnessMonitor.brightness, a fraction [num, den]
    bright_value,    \* StatusModel.value of the brightness model
    filled           \* segments of the StatusBar with the class "active"

barVars == <<max_brightness, levels, exponent, file_data, written,
             brightness, bright_value, filled>>

VARIABLES
    \* KlarApp
    app_timer_id,    \* KlarApp._timer_id, NoTimer for None
    hide_sources,    \* hide closures given to GLib.timeout_add(1000, ...)
    nextHideId,
    \* observation of the run
    notifs,          \* model notifications delivered so far
    sinceNotify,     \* milliseconds since the last notification
    idleTicks        \* ticks the oldest queued idle closure has waited

appVars == <<app_timer_id, hide_sources, nextHideId, notifs, sinceNotify,
             idleTicks>>

VARIABLES
    \* _config.py
    toml,            \* the settings of config.toml the loader reads
    sysfs,           \* the state of the brightness directories
    cfg_pc,          \* "unloaded", "loaded", "failed" or "created"
    config,          \* the KlarConfig that load_configuration returned
    created          \* the monitors create_monitors yielded

cfgVars == <<toml, sysfs, cfg_pc, config, created>>

\* what the monitors and the transition on their own never touch
extVars == <<barVars, appVars, cfgVars>>

vars == <<pulseVars, brightVars, powerVars, apiVars, transVars, extVars>>

\* what the listener thread and the pulse callbacks never touch
notPulse == <<brightVars, powerVars, apiVars, transVars>>

\* ================================================================= Pulse
NoFiring == [id |-> NoTimer, index |-> 0]
NoModel == [exists |-> FALSE, value |-> 0, icon |-> NoIcon]

QueryFail == [ok |-> FALSE, mute |-> FALSE, volume |-> 0, name |-> ""]
QueryResults ==
    [ok : {TRUE}, mute : BOOLEAN, volume : Volumes, name : SinkNames]

\* new_model.volume_to_icon_name
VolumeToIconName(v) ==
    IF v > VolOveramplified THEN ICON_OVER
    ELSE IF v > VolHigh THEN ICON_HIGH
    ELSE IF v > VolMedium THEN ICON_MEDIUM
    ELSE IF v <= 0 THEN ICON_MUTED
    ELSE ICON_LOW

\* new_model.update_icon: the handler of notify::mute
UpdateIcon(m, v) ==
    IF m THEN ICON_MUTED ELSE VolumeToIconName(v)

TransformVolumeToIcon_IgnoresMute(m, v, icon) == VolumeToIconName(v)

\* new_model.transform_volume_to_icon: sets the icon itself when not muted
\* and returns None, so the binding writes nothing to the target.
TransformVolumeToIcon(m, v, icon) ==
    IF ~m THEN VolumeToIconName(v) ELSE icon

\* GLib.source_remove
SourceRemove(src, id) == {s \in src : s.id # id}

\* GLib.timeout_add(ms, callback, index)
TimeoutAdd(src, id, index, ms) ==
    src \cup {[id |-> id, index |-> index, remaining |-> ms]}

\* the body of `with self._timers_lock:` in _on_pulse_event_change
EventChangeSources(tm, src, index, newId) ==
    LET kept == IF tm[index] # NoTimer THEN SourceRemove(src, tm[index])
                ELSE src
    IN  TimeoutAdd(kept, newId, index, DEBOUNCE_MS)

\* `del self._timers[index]`
TimersAfterDel_Kept(tm, index) == tm

TimersAfterDel(tm, index) == [tm EXCEPT ![index] = NoTimer]

MuteAssigned_OnlyIfChanged(sink, m, qmute) == m # qmute

\* the guard of `self.mute = sink.mute`
MuteAssigned(sink, m, qmute) == sink = "" \/ m # qmute

InitPulse ==
    /\ is_started = FALSE
    /\ listen_thread = "new"
    /\ timers = [i \in Indices |-> NoTimer]
    /\ volume = 0
    /\ mute = FALSE
    /\ current_sink = ""
    /\ pulse_model = NoModel
    /\ sources = {}
    /\ nextSourceId = 1
    /\ bgpc = "idle"
    /\ bgIndex = 0
    /\ bgTicks = 0
    /\ mainpc = "idle"
    /\ firing = NoFiring
    /\ events = 0
    /\ firstIndex = 0
    /\ sinceLast = DEBOUNCE_MS
    /\ burstOk = TRUE
    /\ queries = 0
    /\ eventsAtQuery = 0
    /\ assigned = {}
    /\ outcome = "none"
    /\ raised = FALSE

\* Monitor.start -> PulseAudioMonitor.do_start. conn_ok: both connect()
\* calls succeeded; otherwise the exception leaves through the finally.
PulseStart(conn_ok) ==
    /\ is_started' = TRUE
    /\ IF conn_ok /\ listen_thread = "new"
       THEN listen_thread' = "alive" /\ raised' = FALSE
       ELSE listen_thread' = listen_thread /\ raised' = TRUE
    /\ UNCHANGED <<timers, volume, mute, current_sink, pulse_model, sources,
                   nextSourceId, bgpc, bgIndex, bgTicks, mainpc, firing, events,
                   firstIndex, sinceLast, burstOk, queries, eventsAtQuery,
                   assigned, outcome>>

\* PulseAudioMonitor.new_model
PulseNewModel ==
    /\ IF listen_thread # "alive"
       THEN raised' = TRUE /\ pulse_model' = pulse_model
       ELSE /\ raised' = FALSE
            /\ pulse_model' = [exists |-> TRUE, value |-> 0,
                               icon |-> UpdateIcon(mute, volume)]
    /\ UNCHANGED <<is_started, listen_thread, timers, volume, mute,
                   current_sink, sources, nextSourceId, bgpc, bgIndex, bgTicks, mainpc,
                   firing, events, firstIndex, sinceLast, burstOk, queries,
                   eventsAtQuery, assigned, outcome>>

\* Monitor.close -> PulseAudioMonitor.do_stop: closing the connections ends
\* event_listen; join() of a thread never started raises RuntimeError.
PulseClose ==
    /\ IF listen_thread = "new"
       THEN raised' = TRUE /\ listen_thread' = listen_thread
       ELSE raised' = FALSE /\ listen_thread' = "dead"
    /\ UNCHANGED <<is_started, timers, volume, mute, current_sink,
                   pulse_model, sources, nextSourceId, bgpc, bgIndex, bgTicks,
                   mainpc, firing, events, firstIndex, sinceLast, burstOk,
                   queries, eventsAtQuery, assigned, outcome>>

\* KlarApp.do_activate for the pulse monitor: start(), then new_model() when
\* is_started(); both run in the one activation callback of the main loop.
PulseActivate ==
    /\ ~is_started
    /\ mainpc = "idle"
    /\ \E conn_ok \in BOOLEAN :
        /\ is_started' = TRUE
        /\ IF conn_ok
           THEN /\ listen_thread' = "alive"
                /\ raised' = FALSE
                /\ pulse_model' = [exists |-> TRUE, value |-> 0,
                                   icon |-> UpdateIcon(mute, volume)]
           ELSE /\ listen_thread' = listen_thread
                /\ raised' = TRUE
                /\ pulse_model' = pulse_model
    /\ UNCHANGED <<timers, volume, mute, current_sink, sources,
                   nextSourceId, bgpc, bgIndex, bgTicks, mainpc, firing, events,
                   firstIndex, sinceLast, burstOk, queries, eventsAtQuery,
                   assigned, outcome>>
    /\ start_called' = [start_called EXCEPT !["pulse"] = TRUE]
    /\ UNCHANGED <<brightVars, powerVars, last_call, transVars>>

\* pulsectl calls _on_pulse_event_change(ev) on the listener thread; the
\* thread now stands at `with self._timers_lock:`.
EventArrive(i) ==
    /\ listen_thread = "alive"
    /\ bgpc = "idle"
    /\ events < MaxEvents
    /\ bgpc' = "lock"
    /\ bgIndex' = i
    /\ bgTicks' = 0
    /\ events' = events + 1
    /\ firstIndex' = IF events = 0 THEN i ELSE firstIndex
    /\ burstOk' = (burstOk /\ (events = 0 \/
                               (sinceLast < DEBOUNCE_MS /\ i = firstIndex)))
    /\ sinceLast' = 0
    /\ UNCHANGED <<is_started, listen_thread, timers, volume, mute,
                   current_sink, pulse_model, sources, nextSourceId, mainpc,
                   firing, queries, eventsAtQuery, assigned, outcome, raised>>
    /\ UNCHANGED notPulse

\* a listener thread that queries the default sink itself in place of
\* scheduling the debounce timer
EventChange_QueriesOnThread ==
    /\ bgpc = "lock"
    /\ \E r \in QueryResults :
          /\ volume' = r.volume
          /\ mute' = r.mute
          /\ current_sink' = r.name
          /\ pulse_model' = IF pulse_model.exists
                            THEN [pulse_model EXCEPT
                                     !.value = r.volume,
                                     !.icon = UpdateIcon(r.mute, r.volume)]
                            ELSE pulse_model
    /\ queries' = queries + 1
    /\ bgpc' = "idle"
    /\ bgTicks' = 0
    /\ UNCHANGED <<is_started, listen_thread, timers, sources, nextSourceId,
                   bgIndex, mainpc, firing, events, firstIndex, sinceLast,
                   burstOk, eventsAtQuery, assigned, outcome, raised>>
    /\ UNCHANGED notPulse

\* _on_pulse_event_change, the block under the lock
EventChange ==
    /\ bgpc = "lock"
    /\ sources' = EventChangeSources(timers, sources, bgIndex, nextSourceId)
    /\ timers' = [timers EXCEPT ![bgIndex] = nextSourceId]
    /\ nextSourceId' = nextSourceId + 1
    /\ bgpc' = "idle"
    /\ bgTicks' = 0
    /\ UNCHANGED <<is_started, listen_thread, volume, mute, current_sink,
                   pulse_model, bgIndex, mainpc, firing, events, firstIndex,
                   sinceLast, burstOk, queries, eventsAtQuery, assigned,
                   outcome, raised>>
    /\ UNCHANGED notPulse

\* TickMs milliseconds pass. The listener thread reaches the lock within
\* MaxHandlerTicks ticks of the callback's entry.
Tick ==
    /\ bgpc = "lock" => bgTicks < MaxHandlerTicks
    /\ bgTicks' = IF bgpc = "lock" THEN bgTicks + 1 ELSE bgTicks
    /\ sources' = {[s EXCEPT !.remaining = IF s.remaining > TickMs
                                    THEN s.remaining - TickMs ELSE 0] :
                      s \in sources}
    /\ sinceLast' = Min(sinceLast + TickMs, DEBOUNCE_MS)
    /\ UNCHANGED <<is_started, listen_thread, timers, volume, mute,
                   current_sink, pulse_model, nextSourceId, bgpc, bgIndex,
                   mainpc, firing, events, firstIndex, burstOk, queries,
                   eventsAtQuery, assigned, outcome, raised>>
    /\ UNCHANGED notPulse

\* the main loop dispatches a timeout source that is due: the call of
\* _on_pulse_event_timeout(index) has begun and stands before the lock.
TimerDispatch(s) ==
    /\ mainpc = "idle"
    /\ s \in sources
    /\ s.remaining = 0
    /\ sources' = sources \ {s}
    /\ firing' = [id |-> s.id, index |-> s.index]
    /\ mainpc' = "timeout_lock"
    /\ UNCHANGED <<is_started, listen_thread, timers, volume, mute,
                   current_sink, pulse_model, nextSourceId, bgpc, bgIndex, bgTicks,
                   events, firstIndex, sinceLast, burstOk, queries,
                   eventsAtQuery, assigned, outcome, raised>>
    /\ UNCHANGED notPulse

\* _on_pulse_event_timeout: `del self._timers[index]` under the lock; a
\* missing key raises KeyError, which the except clause swallows.
TimeoutLock ==
    /\ mainpc = "timeout_lock"
    /\ IF timers[firing.index] # NoTimer
       THEN /\ timers' = TimersAfterDel(timers, firing.index)
            /\ mainpc' = "timeout_query"
            /\ UNCHANGED <<firing, assigned, outcome>>
       ELSE /\ timers' = timers
            /\ mainpc' = "idle"
            /\ firing' = NoFiring
            /\ assigned' = {}
            /\ outcome' = "keyerror"
    /\ UNCHANGED <<is_started, listen_thread, volume, mute, current_sink,
                   pulse_model, sources, nextSourceId, bgpc, bgIndex, bgTicks, events,
                   firstIndex, sinceLast, burstOk, queries, eventsAtQuery,
                   raised>>
    /\ UNCHANGED notPulse

\* _on_pulse_event_timeout after the lock: sink_default_get() and the three
\* guarded assignments, each followed by its notify handlers.
TimeoutQuery(r) ==
    /\ mainpc = "timeout_query"
    /\ queries' = queries + 1
    /\ eventsAtQuery' = events
    /\ mainpc' = "idle"
    /\ firing' = NoFiring
    /\ IF ~r.ok
       THEN /\ outcome' = "failed"
            /\ assigned' = {}
            /\ UNCHANGED <<volume, mute, current_sink, pulse_model>>
       ELSE LET aMute == MuteAssigned(current_sink, mute, r.mute)
                mute1 == IF aMute THEN r.mute ELSE mute
                icon1 == IF aMute /\ pulse_model.exists
                         THEN UpdateIcon(mute1, volume)
                         ELSE pulse_model.icon
                aVol  == volume # r.volume
                vol1  == IF aVol THEN r.volume ELSE volume
                value1 == IF aVol /\ pulse_model.exists
                          THEN vol1 ELSE pulse_model.value
                icon2 == IF aVol /\ pulse_model.exists
                         THEN TransformVolumeToIcon(mute1, vol1, icon1)
                         ELSE icon1
                aSink == current_sink # r.name
            IN  /\ outcome' = "ok"
                /\ mute' = mute1
                /\ volume' = vol1
                /\ current_sink' = IF aSink THEN r.name ELSE current_sink
                /\ pulse_model' = [pulse_model EXCEPT !.value = value1,
                                                      !.icon = icon2]
                /\ assigned' = (IF aMute THEN {"mute"} ELSE {}) \cup
                               (IF aVol THEN {"volume"} ELSE {}) \cup
                               (IF aSink THEN {"current_sink"} ELSE {})
    /\ UNCHANGED <<is_started, listen_thread, timers, sources, nextSourceId,
                   bgpc, bgIndex, bgTicks, events, firstIndex, sinceLast, burstOk,
                   raised>>
    /\ UNCHANGED notPulse

NextPulse ==
    \/ /\ PulseActivate
       /\ UNCHANGED extVars
    \/ /\ \E i \in Indices : EventArrive(i)
       /\ UNCHANGED extVars
    \/ /\ EventChange
       /\ UNCHANGED extVars
    \/ /\ Tick
       /\ UNCHANGED extVars
    \/ /\ \E s \in sources : TimerDispatch(s)
       /\ UNCHANGED extVars
    \/ /\ TimeoutLock
       /\ UNCHANGED extVars
    \/ /\ \E r \in QueryResults \cup {QueryFail} : TimeoutQuery(r)
       /\ UNCHANGED extVars

\* =========================================================== Brightness
InitBrightness ==
    /\ file = TRUE
    /\ file_monitor = FALSE
    /\ bright_model = FALSE

\* FileMonitor.is_started
BrightnessIsStarted == file

\* Monitor.start -> FileMonitor.do_start
BrightnessStart ==
    /\ file_monitor' = IF file THEN TRUE ELSE file_monitor
    /\ raised' = FALSE
    /\ UNCHANGED <<file, bright_model>>

\* Monitor.close -> FileMonitor.do_stop
BrightnessClose ==
    /\ IF file
       THEN IF file_monitor
            THEN file_monitor' = FALSE /\ file' = FALSE /\ raised' = FALSE
            ELSE \* self._file_monitor is None: .cancel() raises
                 raised' = TRUE /\ UNCHANGED <<file, file_monitor>>
       ELSE raised' = FALSE /\ UNCHANGED <<file, file_monitor>>
    /\ UNCHANGED bright_model

\* BrightnessMonitor.new_model: self._file.get_path() comes first and
\* raises AttributeError on None, then the is_started() test.
BrightnessNewModel ==
    /\ IF ~file \/ ~BrightnessIsStarted
       THEN raised' = TRUE /\ bright_model' = bright_model
       ELSE raised' = FALSE /\ bright_model' = TRUE
    /\ UNCHANGED <<file, file_monitor>>

\* ------------------------------------------ the brightness value's path
MaxBrightnessValues == {4, MaxBrightness}
LevelsValues == {0, 3, 16}
Exponents == {1, 2}

DIGITS == <<"0", "1", "2", "3", "4", "5", "6", "7", "8", "9">>
WHITESPACE == {" ", "\n"}

\* str(v) of a non-negative integer
RECURSIVE Str(_)
Str(v) ==
    IF v < 10 THEN <<DIGITS[v + 1]>>
    ELSE Str(v \div 10) \o <<DIGITS[(v % 10) + 1]>>

DigitValue(c) == CHOOSE d \in 0..9 : DIGITS[d + 1] = c

\* int(data) of decimal text: surrounding whitespace is stripped
RECURSIVE IntOf(_, _)
IntOf(data, acc) ==
    IF data = <<>> THEN acc
    ELSE IF Head(data) \in WHITESPACE THEN IntOf(Tail(data), acc)
    ELSE IntOf(Tail(data), acc * 10 + DigitValue(Head(data)))

RECURSIVE GCD(_, _)
GCD(a, b) == IF b = 0 THEN a ELSE GCD(b, a % b)

\* the quotient n / d of true division, kept exact as a reduced fraction
Fraction(n, d) ==
    LET g == GCD(n, d) IN [num |-> n \div g, den |-> d \div g]

\* an on_change that divides with // in place of /
OnChangeBrightness_FloorDiv(data, maxb) ==
    Fraction(IntOf(data, 0) \div maxb, 1)

\* BrightnessMonitor.on_change: int(data) / self.max_brightness
OnChangeBrightness(data, maxb) == Fraction(IntOf(data, 0), maxb)

\* round(n / d) of Python: to the nearest integer, ties to the even one
RoundHalfEven(n, d) ==
    LET q == n \div d
        r == n % d
    IN  IF 2 * r < d THEN q
        ELSE IF 2 * r > d THEN q + 1
        ELSE IF q % 2 = 0 THEN q ELSE q + 1

\* StatusBar.set_level: filled_levels, which is the number of segments
\* that get set_active(True)
SetLevel(level, lv) ==
    LET clamped == IF level.num < 0 THEN Fraction(0, 1)
                   ELSE IF level.num > level.den THEN Fraction(1, 1)
                   ELSE level
    IN  Min(RoundHalfEven(clamped.num * lv, clamped.den), lv)

InitBar ==
    /\ max_brightness \in MaxBrightnessValues
    /\ levels \in LevelsValues
    /\ exponent \in Exponents
    /\ file_data = <<>>
    /\ written = -1
    /\ brightness = Fraction(0, 1)
    /\ bright_value = Fraction(0, 1)
    /\ filled = 0

\* KlarApp.do_activate for a brightness monitor: start(), then, as
\* is_started() holds, new_model() and a StatusIndicator for the model,
\* whose constructor calls on_value_change(model.value).
BrightnessActivate ==
    /\ ~file_monitor
    /\ ~bright_model
    /\ file_monitor' = IF file THEN TRUE ELSE file_monitor
    /\ raised' = FALSE
    /\ file' = file
    /\ bright_model' = BrightnessIsStarted
    /\ start_called' = [start_called EXCEPT !["brightness"] = TRUE]
    /\ bright_value' = Fraction(0, 1)
    /\ filled' = IF BrightnessIsStarted /\ levels > 0
                 THEN SetLevel(Fraction(0, 1), levels) ELSE filled
    /\ UNCHANGED <<max_brightness, levels, exponent, file_data, written,
                   brightness>>
    /\ UNCHANGED <<pulseState, powerVars, last_call, transVars>>

\* FileMonitor._on_file_change with CHANGES_DONE_HINT after a writer stored
\* v: the file is read and given to on_change; the binding copies brightness
\* to the model's value, whose notify::value runs StatusBar.set_level.
FileChange(v) ==
    /\ file_monitor
    /\ written' = v
    /\ file_data' = Str(v) \o <<"\n">>
    /\ brightness' = OnChangeBrightness(file_data', max_brightness)
    /\ bright_value' = IF bright_model THEN brightness' ELSE bright_value
    /\ filled' = IF bright_model /\ levels > 0
                 THEN SetLevel(bright_value', levels) ELSE filled
    /\ raised' = FALSE
    /\ UNCHANGED <<max_brightness, levels, exponent>>
    /\ UNCHANGED <<pulseState, brightVars, powerVars, apiVars, transVars>>

NextBrightness ==
    \/ /\ BrightnessActivate
       /\ UNCHANGED <<appVars, cfgVars>>
    \/ /\ \E v \in 0..max_brightness : FileChange(v)
       /\ UNCHANGED <<appVars, cfgVars>>

\* ================================================================ Power
NoDevice == 0
NoValue == -1
TYPE_AC == 1
TYPE_BATTERY == 2
DeviceTypes == {0, 1, 2, 3}     \* 0: no cached Type, 3: some other device
Percentages == {0, 14, 15, 34, 35, 54, 55, 74, 75, 80, 94, 95, 100}

DeviceLists ==
    UNION {[1..n -> DeviceTypes] : n \in 0..MaxDevices}

\* the loop of _get_ac_and_battery_proxy from device k on
RECURSIVE ScanDevices(_, _, _, _)
ScanDevices(devs, k, ac, bat) ==
    IF k > Len(devs) \/ (ac # NoDevice /\ bat # NoDevice)
    THEN <<ac, bat>>
    ELSE IF ac = NoDevice /\ devs[k] = TYPE_AC
         THEN ScanDevices(devs, k + 1, k, bat)
         ELSE IF bat = NoDevice /\ devs[k] = TYPE_BATTERY
              THEN ScanDevices(devs, k + 1, ac, k)
              ELSE ScanDevices(devs, k + 1, ac, bat)

\* PowerMonitor._get_ac_and_battery_proxy
GetAcAndBatteryProxy(devs) == ScanDevices(devs, 1, NoDevice, NoDevice)

PowerIsStarted_BothProxies == ac_proxy # NoDevice /\ batter_proxy # NoDevice

\* PowerMonitor.is_started
PowerIsStarted == ac_proxy # NoDevice

\* update_icon, the branch `if self.connected:`
ChargingIconName(p) ==
    IF p >= 95 THEN "battery-level-100-charging-symbolic"
    ELSE IF p >= 75 THEN "battery-level-80-charging-symbolic"
    ELSE IF p >= 55 THEN "battery-level-60-charging-symbolic"
    ELSE IF p >= 35 THEN "battery-level-40-charging-symbolic"
    ELSE IF p >= 15 THEN "battery-level-20-charging-symbolic"
    ELSE "battery-level-10-charging-symbolic"

\* update_icon, the else branch
DischargingIconName(p) ==
    IF p >= 95 THEN "battery-level-100-symbolic"
    ELSE IF p >= 75 THEN "battery-level-80-symbolic"
    ELSE IF p >= 55 THEN "battery-level-60-symbolic"
    ELSE IF p >= 35 THEN "battery-level-40-symbolic"
    ELSE IF p >= 15 THEN "battery-level-20-symbolic"
    ELSE "battery-level-10-symbolic"

\* update_icon, the percentage it reads
CachedPercentage(bat, perc) ==
    IF bat # NoDevice /\ perc # NoValue THEN perc ELSE 0

PowerIconName_ChargingIgnored(c, bat, perc) ==
    DischargingIconName(CachedPercentage(bat, perc))

\* new_model.update_icon: the handler of notify::connected
PowerIconName(c, bat, perc) ==
    IF c THEN ChargingIconName(CachedPercentage(bat, perc))
    ELSE DischargingIconName(CachedPercentage(bat, perc))

NoPowerModel == [exists |-> FALSE, icon |-> NoIcon]
NoPowerEvent == [bit |-> FALSE, has_online |-> FALSE, online |-> FALSE]

InitPower ==
    /\ ac_proxy = NoDevice
    /\ batter_proxy = NoDevice
    /\ ac_handler = FALSE
    /\ connected = FALSE
    /\ percentage = NoValue
    /\ power_model = NoPowerModel
    /\ power_indicator = FALSE
    /\ power_devices = <<>>
    /\ power_activated = FALSE
    /\ power_event = NoPowerEvent

\* Monitor.start -> PowerMonitor.do_start; a new battery proxy has no
\* Percentage cached until the battery reports one.
PowerStart(devs) ==
    LET found == GetAcAndBatteryProxy(devs)
    IN  /\ ac_proxy' = found[1]
        /\ batter_proxy' = found[2]
        /\ ac_handler' = (found[1] # NoDevice)
        /\ percentage' = NoValue
        /\ power_devices' = devs
        /\ raised' = FALSE
        /\ UNCHANGED <<connected, power_model, power_indicator,
                       power_activated, power_event>>

\* Monitor.close -> PowerMonitor.do_stop
PowerClose ==
    /\ ac_handler' = FALSE
    /\ raised' = FALSE
    /\ UNCHANGED <<ac_proxy, batter_proxy, connected, percentage, power_model,
                   power_indicator, power_devices, power_activated,
                   power_event>>

\* PowerMonitor.new_model
PowerNewModel ==
    /\ IF ~PowerIsStarted
       THEN raised' = TRUE /\ power_model' = power_model
       ELSE raised' = FALSE /\ power_model' = [exists |-> TRUE, icon |-> NoIcon]
    /\ UNCHANGED <<ac_proxy, batter_proxy, ac_handler, connected, percentage,
                   power_indicator, power_devices, power_activated,
                   power_event>>

\* KlarApp.do_activate for the power monitor: start(), and when
\* is_started() new_model() and a StatusIndicator for the model.
PowerActivate(devs) ==
    /\ ~power_activated
    /\ power_activated' = TRUE
    /\ LET found == GetAcAndBatteryProxy(devs)
       IN  /\ ac_proxy' = found[1]
           /\ batter_proxy' = found[2]
           /\ ac_handler' = (found[1] # NoDevice)
           /\ percentage' = NoValue
           /\ power_devices' = devs
    /\ IF PowerIsStarted'
       THEN /\ power_model' = [exists |-> TRUE, icon |-> NoIcon]
            /\ power_indicator' = TRUE
       ELSE UNCHANGED <<power_model, power_indicator>>
    /\ start_called' = [start_called EXCEPT !["power"] = TRUE]
    /\ UNCHANGED <<connected, power_event, last_call>>
    /\ UNCHANGED <<pulseVars, brightVars, transVars>>

\* the battery proxy's cache follows the battery
BatteryPercentage(perc) ==
    /\ batter_proxy # NoDevice
    /\ percentage' = perc
    /\ UNCHANGED <<ac_proxy, batter_proxy, ac_handler, connected, power_model,
                   power_indicator, power_devices, power_activated,
                   power_event>>
    /\ UNCHANGED <<pulseVars, brightVars, apiVars, transVars>>

\* PowerMonitor._on_properties_changed and, through notify::connected,
\* update_icon of the model
OnPropertiesChanged(has_online, online) ==
    /\ ac_handler
    /\ power_event' = [bit |-> ~power_event.bit, has_online |-> has_online,
                       online |-> online]
    /\ IF has_online
       THEN /\ connected' = online
            /\ power_model' =
                 IF power_model.exists
                 THEN [power_model EXCEPT
                         !.icon = PowerIconName(online, batter_proxy,
                                                percentage)]
                 ELSE power_model
       ELSE UNCHANGED <<connected, power_model>>
    /\ UNCHANGED <<ac_proxy, batter_proxy, ac_handler, percentage,
                   power_indicator, power_devices, power_activated>>
    /\ UNCHANGED <<pulseVars, brightVars, apiVars, transVars>>

NextPower ==
    \/ /\ \E devs \in DeviceLists : PowerActivate(devs)
       /\ UNCHANGED extVars
    \/ /\ \E perc \in Percentages \cup {NoValue} : BatteryPercentage(perc)
       /\ UNCHANGED extVars
    \/ /\ \E has_online \in BOOLEAN, online \in BOOLEAN :
             OnPropertiesChanged(has_online, online)
       /\ UNCHANGED extVars

\* ===================================================== GenericTransition
FRAME_MS == 16
OPACITY_INITIAL == 10       \* initial=0.01
OPACITY_TARGET == 1000      \* target=1.0
Durations == {0, 20, 40}

\* ease_out_cubic applied to t = elapsed / duration and the interpolation
\* initial + delta * eased_t of do_animation, in thousandths
Interpolate(initial, target, elapsed, duration) ==
    LET den == duration * duration * duration
        rest == duration - elapsed
        num == den - rest * rest * rest
    IN  IF target >= initial
        THEN initial + ((target - initial) * num) \div den
        ELSE initial - ((initial - target) * num) \div den

\* KlarWindow.show_hide_duration
ShowHideDuration(v) == IF v THEN reveal_duration ELSE hide_duration

\* idle_add without the source_remove of the running ramp
IdleAddSources_NoRemove(src, old, new) == src \cup {new}

\* idle_add: `if self._timer_id is not None: GLib.source_remove(...)` and
\* the timeout_add that follows
IdleAddSources(src, old, new) ==
    (IF old # NoTimer THEN SourceRemove(src, old) ELSE src) \cup {new}

NoInvoke == [visible |-> FALSE, duration |-> 0, target |-> 0]

InitTransition ==
    /\ reveal_duration \in Durations
    /\ hide_duration \in Durations
    /\ trans_timer_id = NoTimer
    /\ idle_queue = <<>>
    /\ anim_sources = {}
    /\ nextAnimId = 1
    /\ opacity = 1000
    /\ visible = FALSE
    /\ method_calls = <<>>
    /\ ncalls = 0
    /\ last_invoke = NoInvoke
    /\ action_log = <<>>
    /\ removed = {}

\* GenericTransition.__call__(v), as KlarWindow.set_visible(v): before is
\* `lambda x: x`, the duration comes from show_hide_duration.
SetVisible(v) ==
    /\ ncalls' = ncalls + 1
    /\ LET before == v
           duration == ShowHideDuration(v)
           initial == IF before THEN OPACITY_INITIAL ELSE OPACITY_TARGET
           target == IF before THEN OPACITY_TARGET ELSE OPACITY_INITIAL
       IN  /\ last_invoke' = [visible |-> v, duration |-> duration,
                              target |-> target]
           /\ IF duration = 0
              THEN /\ opacity' = target
                   /\ visible' = v
                   /\ method_calls' = Append(method_calls, v)
                   /\ action_log' = Append(action_log,
                         [call |-> ncalls', phase |-> "zero", arg |-> v])
                   /\ idle_queue' = idle_queue
              ELSE /\ IF before
                      THEN /\ opacity' = initial
                           /\ visible' = v
                           /\ method_calls' = Append(method_calls, v)
                           /\ action_log' = Append(action_log,
                                 [call |-> ncalls', phase |-> "before",
                                  arg |-> v])
                      ELSE UNCHANGED <<opacity, visible, method_calls,
                                       action_log>>
                   /\ idle_queue' = Append(idle_queue,
                         [before |-> before, duration |-> duration,
                          initial |-> initial, target |-> target,
                          arg |-> v, call |-> ncalls'])
    /\ UNCHANGED <<reveal_duration, hide_duration, trans_timer_id,
                   anim_sources, nextAnimId, removed>>

\* some caller invokes the transition
TransitionCall(v) ==
    /\ ncalls < MaxCalls
    /\ SetVisible(v)
    /\ UNCHANGED <<pulseVars, brightVars, powerVars, apiVars>>

\* the closure idle_add, run by the main loop when no timeout is due
\* (idle sources have the lower priority)
IdleAdd ==
    /\ idle_queue # <<>>
    /\ \A a \in anim_sources : ~a.due
    /\ LET c == Head(idle_queue)
           new == [id |-> nextAnimId, before |-> c.before,
                   duration |-> c.duration, initial |-> c.initial,
                   target |-> c.target, arg |-> c.arg, call |-> c.call,
                   elapsed |-> 0, due |-> FALSE]
       IN  /\ anim_sources' = IdleAddSources(anim_sources, trans_timer_id, new)
           /\ removed' = removed \cup
                 {a.id : a \in {x \in anim_sources : x.id = trans_timer_id}}
    /\ trans_timer_id' = nextAnimId
    /\ nextAnimId' = nextAnimId + 1
    /\ idle_queue' = Tail(idle_queue)
    /\ UNCHANGED <<reveal_duration, hide_duration, opacity, visible,
                   method_calls, ncalls, last_invoke, action_log>>
    /\ UNCHANGED <<pulseVars, brightVars, powerVars, apiVars>>

\* FRAME_MS milliseconds pass: every attached timeout becomes due
FrameTick ==
    /\ anim_sources # {}
    /\ anim_sources' =
          {[a EXCEPT !.elapsed = Min(a.elapsed + FRAME_MS, a.duration),
                     !.due = TRUE] : a \in anim_sources}
    /\ UNCHANGED <<reveal_duration, hide_duration, trans_timer_id, idle_queue,
                   nextAnimId, opacity, visible, method_calls, ncalls,
                   last_invoke, action_log, removed>>
    /\ UNCHANGED <<pulseVars, brightVars, powerVars, apiVars>>

\* a completion that calls the wrapped method whatever the direction
CompletionCallsMethod_Always(before) == TRUE

\* do_animation at full progress: `if not before: self.method(...)`
CompletionCallsMethod(before) == ~before

\* the closure do_animation of one ramp
DoAnimation(a) ==
    /\ a \in anim_sources
    /\ a.due
    /\ IF a.elapsed < a.duration
       THEN /\ opacity' = Interpolate(a.initial, a.target, a.elapsed,
                                      a.duration)
            /\ anim_sources' = (anim_sources \ {a}) \cup
                                  {[a EXCEPT !.due = FALSE]}
            /\ UNCHANGED <<trans_timer_id, visible, method_calls, action_log>>
       ELSE /\ trans_timer_id' = NoTimer
            /\ opacity' = a.target
            /\ anim_sources' = anim_sources \ {a}
            /\ IF CompletionCallsMethod(a.before)
               THEN /\ visible' = a.arg
                    /\ method_calls' = Append(method_calls, a.arg)
                    /\ action_log' = Append(action_log,
                          [call |-> a.call, phase |-> "after",
                           arg |-> a.arg])
               ELSE UNCHANGED <<visible, method_calls, action_log>>
    /\ UNCHANGED <<reveal_duration, hide_duration, idle_queue, nextAnimId,
                   ncalls, last_invoke, removed>>
    /\ UNCHANGED <<pulseVars, brightVars, powerVars, apiVars>>

NextTransition ==
    \/ /\ \E v \in BOOLEAN : TransitionCall(v)
       /\ UNCHANGED extVars
    \/ /\ IdleAdd
       /\ UNCHANGED extVars
    \/ /\ FrameTick
       /\ UNCHANGED extVars
    \/ /\ \E a \in anim_sources : DoAnimation(a)
       /\ UNCHANGED extVars

\* ================================================================ KlarApp
DWELL_MS == 1000

InitApp ==
    /\ app_timer_id = NoTimer
    /\ hide_sources = {}
    /\ nextHideId = 1
    /\ notifs = 0
    /\ sinceNotify = 0
    /\ idleTicks = 0

\* a show_callback that schedules its hide timer without removing the
\* pending one
PendingAfterRemove_Kept(pending, timer_id) == pending

\* show_callback: GLib.source_remove(self._timer_id) unless _timer_id is None
PendingAfterRemove(pending, timer_id) ==
    IF timer_id = NoTimer THEN pending ELSE SourceRemove(pending, timer_id)

\* do_activate.show_callback, the handler of "notify" of every status model
ShowCallback ==
    /\ notifs < MaxNotifs
    /\ notifs' = notifs + 1
    /\ sinceNotify' = 0
    /\ IF app_timer_id = NoTimer
       THEN SetVisible(TRUE)
       ELSE UNCHANGED transVars
    /\ hide_sources' = TimeoutAdd(
           PendingAfterRemove(hide_sources, app_timer_id), nextHideId, 0,
           DWELL_MS)
    /\ app_timer_id' = nextHideId
    /\ nextHideId' = nextHideId + 1
    /\ idleTicks' = IF idle_queue = <<>> THEN 0 ELSE idleTicks
    /\ UNCHANGED <<pulseVars, brightVars, powerVars, apiVars, barVars>>

\* show_callback.hide, dispatched when its 1000 ms have passed
Hide(s) ==
    /\ s \in hide_sources
    /\ s.remaining = 0
    /\ hide_sources' = hide_sources \ {s}
    /\ SetVisible(FALSE)
    /\ app_timer_id' = NoTimer
    /\ idleTicks' = IF idle_queue = <<>> THEN 0 ELSE idleTicks
    /\ UNCHANGED <<nextHideId, notifs, sinceNotify>>
    /\ UNCHANGED <<pulseVars, brightVars, powerVars, apiVars, barVars>>

\* the main loop runs the oldest idle closure when no timeout is due
AppIdleAdd ==
    /\ \A s \in hide_sources : s.remaining > 0
    /\ IdleAdd
    /\ idleTicks' = 0
    /\ UNCHANGED <<app_timer_id, hide_sources, nextHideId, notifs,
                   sinceNotify, barVars>>

\* the main loop runs the frame callback of a ramp
AppDoAnimation(a) ==
    /\ DoAnimation(a)
    /\ UNCHANGED <<appVars, barVars>>

\* FRAME_MS milliseconds pass while a callback runs or the loop sleeps: due
\* timeouts are dispatched before more time passes, and a queued idle
\* closure waits for MaxHandlerTicks ticks at most.
AppTick ==
    /\ hide_sources # {} \/ anim_sources # {} \/ idle_queue # <<>>
    /\ \A s \in hide_sources : s.remaining > 0
    /\ \A a \in anim_sources : ~a.due
    /\ idle_queue # <<>> => idleTicks < MaxHandlerTicks
    /\ idleTicks' = IF idle_queue # <<>> THEN idleTicks + 1 ELSE 0
    /\ hide_sources' =
          {[s EXCEPT !.remaining = IF s.remaining > FRAME_MS
                                    THEN s.remaining - FRAME_MS ELSE 0] :
             s \in hide_sources}
    /\ anim_sources' =
          {[a EXCEPT !.elapsed = Min(a.elapsed + FRAME_MS, a.duration),
                     !.due = TRUE] : a \in anim_sources}
    /\ sinceNotify' = Min(sinceNotify + FRAME_MS, DWELL_MS + FRAME_MS)
    /\ UNCHANGED <<reveal_duration, hide_duration, trans_timer_id, idle_queue,
                   nextAnimId, opacity, visible, method_calls, ncalls,
                   last_invoke, action_log, removed>>
    /\ UNCHANGED <<app_timer_id, nextHideId, notifs>>
    /\ UNCHANGED <<pulseVars, brightVars, powerVars, apiVars, barVars>>

NextApp ==
    \/ ShowCallback /\ UNCHANGED cfgVars
    \/ \E s \in hide_sources : Hide(s) /\ UNCHANGED cfgVars
    \/ AppIdleAdd /\ UNCHANGED cfgVars
    \/ \E a \in anim_sources : AppDoAnimation(a) /\ UNCHANGED cfgVars
    \/ AppTick /\ UNCHANGED cfgVars

\* ========================================================== _config.py
\* a setting is "absent" from its section, or given as "true" or "false"
Settings == {"absent", "true", "false"}
MaxBrightnessFiles == {0, 7, 255}

\* the subdirectories of the sysfs base directory, in iterdir() order
SubDir == [has_max : BOOLEAN, has_brightness : BOOLEAN,
           max : MaxBrightnessFiles]
SubDirLists == UNION {[1..n -> SubDir] : n \in 0..MaxSubdirs}

Tomls == [power_enabled : Settings, pulseaudio_enabled : Settings,
          display_enabled : Settings, display_device : BOOLEAN]
SysfsStates == [is_dir : BOOLEAN, subdirs : SubDirLists,
                device_max : {NoValue, 255}]

NoDeviceFile == [kind |-> "none", pos |-> 0]
NoConfig == [power |-> FALSE, pulseaudio |-> FALSE,
             display |-> [enabled |-> FALSE, device |-> NoDeviceFile,
                          max_brightness |-> NoValue]]

\* section.get("enabled", default)
SectionGet(setting, default) ==
    IF setting = "absent" THEN default ELSE setting = "true"

\* the loop of _guess_brightness_provider over the first k subdirectories:
\* [best, best_max], best being the position of the chosen one or 0
RECURSIVE GuessLoop(_, _)
GuessLoop(subdirs, k) ==
    IF k = 0 THEN [best |-> 0, best_max |-> -1]
    ELSE LET prev == GuessLoop(subdirs, k - 1)
             d == subdirs[k]
         IN  IF d.has_max /\ d.has_brightness /\ d.max > prev.best_max
             THEN [best |-> k, best_max |-> d.max]
             ELSE prev

\* _guess_brightness_provider: `return None` without a base directory,
\* and best.as_posix() on the best found, which is None without candidate
GuessBrightnessProvider(fs) ==
    IF ~fs.is_dir THEN [raises |-> FALSE, none |-> TRUE, best |-> 0,
                        best_max |-> NoValue]
    ELSE LET g == GuessLoop(fs.subdirs, Len(fs.subdirs))
         IN  IF g.best = 0
             THEN [raises |-> TRUE, none |-> FALSE, best |-> 0,
                   best_max |-> NoValue]
             ELSE [raises |-> FALSE, none |-> FALSE, best |-> g.best,
                   best_max |-> g.best_max]

\* _load_brightness_config: [raises, cfg]
LoadBrightnessConfig(enabled_setting, has_device, fs) ==
    LET enabled == SectionGet(enabled_setting, TRUE)
        off == [enabled |-> FALSE, device |-> NoDeviceFile,
                max_brightness |-> NoValue]
    IN  IF ~enabled THEN [raises |-> FALSE, cfg |-> off]
        ELSE IF has_device
        THEN [raises |-> FALSE,
              cfg |-> [enabled |-> fs.device_max # NoValue,
                       device |-> [kind |-> "explicit", pos |-> 0],
                       max_brightness |-> fs.device_max]]
        ELSE LET g == GuessBrightnessProvider(fs)
             IN  IF g.raises \/ g.none
                 THEN \* `device, max_brightness = None` cannot be unpacked
                      [raises |-> TRUE, cfg |-> off]
                 ELSE [raises |-> FALSE,
                       cfg |-> [enabled |-> TRUE,
                                device |-> [kind |-> "guessed",
                                            pos |-> g.best],
                                max_brightness |-> g.best_max]]

\* load_configuration: power_section = monitor_section.get("pulseaudio", {})
PowerSectionSetting(t) == t.pulseaudio_enabled

InitConfig ==
    /\ toml = [power_enabled |-> "absent", pulseaudio_enabled |-> "absent",
               display_enabled |-> "absent", display_device |-> FALSE]
    /\ sysfs = [is_dir |-> FALSE, subdirs |-> <<>>, device_max |-> NoValue]
    /\ cfg_pc = "unloaded"
    /\ config = NoConfig
    /\ created = {}

\* `config = load_configuration()` at import, for one config.toml and one
\* state of /sys/class/backlight
LoadConfiguration(t, fs) ==
    /\ cfg_pc = "unloaded"
    /\ toml' = t
    /\ sysfs' = fs
    /\ LET display == LoadBrightnessConfig(t.display_enabled,
                                           t.display_device, fs)
       IN  IF display.raises
           THEN cfg_pc' = "failed" /\ config' = config
           ELSE /\ cfg_pc' = "loaded"
                /\ config' =
                     [power |-> SectionGet(PowerSectionSetting(t), TRUE),
                      pulseaudio |-> SectionGet(t.pulseaudio_enabled, TRUE),
                      display |-> display.cfg]
    /\ created' = created
    /\ UNCHANGED <<pulseVars, brightVars, powerVars, apiVars, transVars,
                   barVars, appVars>>

\* create_monitors, consumed by the loop of do_activate
CreateMonitors ==
    /\ cfg_pc = "loaded"
    /\ cfg_pc' = "created"
    /\ created' = (IF config.display.enabled THEN {"display"} ELSE {}) \cup
                  (IF config.power THEN {"power"} ELSE {}) \cup
                  (IF config.pulseaudio THEN {"pulseaudio"} ELSE {})
    /\ UNCHANGED <<toml, sysfs, config>>
    /\ UNCHANGED <<pulseVars, brightVars, powerVars, apiVars, transVars,
                   barVars, appVars>>

NextConfig ==
    \/ /\ cfg_pc = "unloaded"
       /\ \E t \in Tomls, fs \in SysfsStates : LoadConfiguration(t, fs)
    \/ CreateMonitors

\* -------------------------------------------- claims on GenericTransition

\* C3: at most one ramp is active per transition: whenever a ramp is
\* started, the frame callback of the ramp in flight has been removed, the
\* new frame callback is the only one attached, and _timer_id names it.
C3_OneActiveRamp ==
    /\ [](/\ Cardinality(anim_sources) <= 1
          /\ \A a \in anim_sources : a.id = trans_timer_id)
    /\ [][nextAnimId' # nextAnimId =>
            /\ \A a \in anim_sources : a \notin anim_sources'
            /\ Cardinality(anim_sources') = 1
            /\ \A a \in anim_sources' : a.id = nextAnimId /\ a.elapsed = 0
            /\ trans_timer_id' = nextAnimId
         ]_vars

\* a ramp in flight was cancelled by a later invocation, one ramp is active
C3_Witness ==
    /\ removed # {}
    /\ Cardinality(anim_sources) = 1
    /\ \A a \in anim_sources : a.id = trans_timer_id /\ a.id \notin removed

\* C4: an invocation with duration 0, in any state of the transition, gives
\* the target to the setter, calls the wrapped action exactly once and
\* returns with no scheduled callback of the transition pending.
C4_ZeroDurationLeavesNothingPending ==
    [][(ncalls' = ncalls + 1 /\ last_invoke'.duration = 0) =>
          /\ opacity' = last_invoke'.target
          /\ method_calls' = Append(method_calls, last_invoke'.visible)
          /\ idle_queue' = <<>>
          /\ anim_sources' = {}
      ]_vars


\* the calls of the wrapped method made for invocation n
LogOf(n) == {i \in DOMAIN action_log : action_log[i].call = n}

\* the ramp of invocation n is still queued or in flight
RampPending(n) ==
    \/ \E i \in DOMAIN idle_queue : idle_queue[i].call = n
    \/ \E a \in anim_sources : a.call = n

\* C15: for an invocation with nonzero duration that no later invocation
\* supersedes, the wrapped action is called exactly once: with a true
\* before-predicate synchronously, after the setter received the initial
\* value, and not again at ramp completion; with a false one only at ramp
\* completion, after the setter received the exact end value and the timer
\* state was cleared.
C15_ActionCalledOnce ==
    /\ [](\A n \in 1..ncalls : Cardinality(LogOf(n)) <= 1)
    /\ []((ncalls > 0 /\ last_invoke.duration # 0) =>
            IF last_invoke.visible
            THEN \E i \in LogOf(ncalls) :
                    action_log[i] = [call |-> ncalls, phase |-> "before",
                                     arg |-> TRUE]
            ELSE IF RampPending(ncalls)
                 THEN LogOf(ncalls) = {}
                 ELSE \E i \in LogOf(ncalls) :
                         action_log[i] = [call |-> ncalls, phase |-> "after",
                                          arg |-> FALSE])
    /\ [][/\ (ncalls' # ncalls /\ last_invoke'.duration # 0
                 /\ last_invoke'.visible) =>
                (opacity' = OPACITY_INITIAL /\ visible')
          /\ (Len(action_log') > Len(action_log)
                 /\ action_log'[Len(action_log')].phase = "after") =>
                (/\ opacity' = OPACITY_INITIAL
                 /\ trans_timer_id' = NoTimer
                 /\ ~visible'
                 /\ \A a \in anim_sources' :
                       a.call # action_log'[Len(action_log')].call)
         ]_vars

\* a hide superseded an earlier hide, ran its ramp to the end and called
\* the action then, the only call made
C15_Witness ==
    /\ ncalls = 2
    /\ ~last_invoke.visible
    /\ last_invoke.duration = 40
    /\ ~RampPending(2)
    /\ removed # {}
    /\ action_log = <<[call |-> 2, phase |-> "after", arg |-> FALSE]>>
    /\ opacity = OPACITY_INITIAL

\* ------------------------------------------------------ claims on KlarApp

\* C16: every model notification makes the popup shown and (re)starts the
\* 1000 ms hide timer; the hide action runs no sooner than 1000 ms after
\* the last notification, a notification within the dwell time postponing
\* it, and once notifications have ceased the window eventually becomes
\* not visible.
C16_PopupDwell ==
    /\ [][/\ (notifs' # notifs) =>
                /\ visible'
                /\ hide_sources' = {[id |-> app_timer_id', index |-> 0,
                                     remaining |-> DWELL_MS]}
          /\ (app_timer_id # NoTimer /\ app_timer_id' = NoTimer) =>
                /\ sinceNotify >= DWELL_MS
                /\ sinceNotify < DWELL_MS + FRAME_MS
         ]_vars
    /\ [](notifs > 0 => <>(~visible /\ hide_sources = {}))

\* C19: while the hide timer is pending the window is shown: the latest
\* call of the window's real set_visible was made with True.
C19_ShownWhileDwelling ==
    (app_timer_id # NoTimer \/ hide_sources # {}) =>
        /\ visible
        /\ method_calls # <<>>
        /\ method_calls[Len(method_calls)] = TRUE

\* C21: at most one popup hide timer is pending, and _timer_id is non-null
\* exactly when a hide timer is pending, that timer being the one it names;
\* a notification replaces the pending timer by a new one of 1000 ms, and
\* the hide callback leaves _timer_id null and no timer pending.
C21_OneHideTimer ==
    /\ [](/\ Cardinality(hide_sources) <= 1
          /\ (app_timer_id # NoTimer) <=> (hide_sources # {})
          /\ \A s \in hide_sources : s.id = app_timer_id)
    /\ [][/\ (notifs' # notifs) =>
                /\ app_timer_id' # app_timer_id
                /\ hide_sources' = {[id |-> app_timer_id', index |-> 0,
                                     remaining |-> DWELL_MS]}
          /\ (\E s \in hide_sources : s \notin hide_sources' /\
                                       notifs' = notifs /\ s.remaining = 0) =>
                /\ app_timer_id' = NoTimer
                /\ hide_sources' = {}
         ]_vars

\* a second notification arrived while the first one's timer was pending
\* and restarted it: the window was shown once, the second timer is the
\* only one pending and has run for a while
C21_Witness ==
    /\ notifs = 2
    /\ ncalls = 1
    /\ app_timer_id = 2
    /\ Cardinality(hide_sources) = 1
    /\ \A s \in hide_sources : s.id = 2 /\ s.remaining < DWELL_MS
    /\ sinceNotify > 0

\* --------------------------------------------------- claims on _config.py

\* the subdirectories holding both a brightness and a max_brightness file
Candidates(fs) ==
    {k \in 1..Len(fs.subdirs) :
        fs.subdirs[k].has_max /\ fs.subdirs[k].has_brightness}

\* C18: the power monitor is created exactly when monitor.power.enabled is
\* true (true when absent), whatever the monitor.pulseaudio section holds,
\* and the pulseaudio monitor exactly when its own setting is true.
C18_PowerReadsOwnSection ==
    cfg_pc = "created" =>
        /\ ("power" \in created) = SectionGet(toml.power_enabled, TRUE)
        /\ ("pulseaudio" \in created) =
              SectionGet(toml.pulseaudio_enabled, TRUE)

\* C20: loading never raises because of brightness devices: a brightness
\* monitor enabled without a device, with no base directory or no candidate
\* in it, loads with enabled = false; with candidates the device chosen is
\* the one with the largest max_brightness.
C20_BrightnessGuessNeverRaises ==
    cfg_pc # "unloaded" =>
        /\ cfg_pc # "failed"
        /\ (SectionGet(toml.display_enabled, TRUE) /\ ~toml.display_device) =>
              IF sysfs.is_dir /\ Candidates(sysfs) # {}
              THEN /\ config.display.enabled
                   /\ config.display.device.kind = "guessed"
                   /\ config.display.device.pos \in Candidates(sysfs)
                   /\ \A k \in Candidates(sysfs) :
                         sysfs.subdirs[k].max <= config.display.max_brightness
              ELSE ~config.display.enabled

\* ==================================================== the Monitor contract
Monitors == {"brightness", "power", "pulse"}

InitApi ==
    /\ start_called = [m \in Monitors |-> FALSE]
    /\ last_call = [monitor |-> "none", op |-> "none", raised |-> FALSE,
                    bit |-> FALSE]

\* Monitor.is_started of each variant
IsStarted(m) ==
    CASE m = "brightness" -> BrightnessIsStarted
      [] m = "power" -> PowerIsStarted
      [] m = "pulse" -> is_started

\* the resources start() acquires are held: the change subscription of the
\* file monitor, the g-properties-changed handler, the listener thread
Acquired(m) ==
    CASE m = "brightness" -> file_monitor
      [] m = "power" -> ac_handler
      [] m = "pulse" -> listen_thread = "alive"

\* bit flips with every call, so that a repeated call is a step
Called(m, op) ==
    last_call' = [monitor |-> m, op |-> op, raised |-> raised',
                  bit |-> ~last_call.bit]

\* a client of the contract calls start(), close() or new_model() on a monitor
ApiBrightnessStart ==
    /\ BrightnessStart
    /\ start_called' = [start_called EXCEPT !["brightness"] = TRUE]
    /\ Called("brightness", "start")
    /\ UNCHANGED <<powerVars>>
    /\ UNCHANGED <<pulseState, transVars>>

ApiBrightnessClose ==
    /\ BrightnessClose
    /\ Called("brightness", "close")
    /\ UNCHANGED <<powerVars, start_called>>
    /\ UNCHANGED <<pulseState, transVars>>

ApiBrightnessNewModel ==
    /\ BrightnessNewModel
    /\ Called("brightness", "new_model")
    /\ UNCHANGED <<powerVars, start_called>>
    /\ UNCHANGED <<pulseState, transVars>>

ApiPowerStart ==
    /\ \E devs \in DeviceLists : PowerStart(devs)
    /\ start_called' = [start_called EXCEPT !["power"] = TRUE]
    /\ Called("power", "start")
    /\ UNCHANGED <<brightVars>>
    /\ UNCHANGED <<pulseState, transVars>>

ApiPowerClose ==
    /\ PowerClose
    /\ Called("power", "close")
    /\ UNCHANGED <<brightVars, start_called>>
    /\ UNCHANGED <<pulseState, transVars>>

ApiPowerNewModel ==
    /\ PowerNewModel
    /\ Called("power", "new_model")
    /\ UNCHANGED <<brightVars, start_called>>
    /\ UNCHANGED <<pulseState, transVars>>

ApiPulseStart ==
    /\ \E conn_ok \in BOOLEAN : PulseStart(conn_ok)
    /\ start_called' = [start_called EXCEPT !["pulse"] = TRUE]
    /\ Called("pulse", "start")
    /\ UNCHANGED <<brightVars, powerVars, transVars>>

ApiPulseClose ==
    /\ PulseClose
    /\ Called("pulse", "close")
    /\ UNCHANGED <<brightVars, powerVars, start_called, transVars>>

ApiPulseNewModel ==
    /\ PulseNewModel
    /\ Called("pulse", "new_model")
    /\ UNCHANGED <<brightVars, powerVars, start_called, transVars>>

NextLifecycle ==
    \/ /\ ApiBrightnessStart
       /\ UNCHANGED extVars
    \/ /\ ApiBrightnessClose
       /\ UNCHANGED extVars
    \/ /\ ApiBrightnessNewModel
       /\ UNCHANGED extVars
    \/ /\ ApiPowerStart
       /\ UNCHANGED extVars
    \/ /\ ApiPowerClose
       /\ UNCHANGED extVars
    \/ /\ ApiPowerNewModel
       /\ UNCHANGED extVars
    \/ /\ ApiPulseStart
       /\ UNCHANGED extVars
    \/ /\ ApiPulseClose
       /\ UNCHANGED extVars
    \/ /\ ApiPulseNewModel
       /\ UNCHANGED extVars


\* ------------------------------------------- claims on the Monitor contract

\* C5: new_model() on a monitor that has not been started raises and returns
\* no model: a model is returned only by a monitor whose start() has been
\* called (for every variant is_started() is false until then).
C5_UnstartedHasNoModel ==
    \A m \in Monitors :
        (last_call.monitor = m /\ last_call.op = "new_model"
            /\ ~last_call.raised) => start_called[m]

\* a call of op on monitor m has just returned or raised
CallStep(m, op) ==
    /\ last_call'.bit # last_call.bit
    /\ last_call'.monitor = m
    /\ last_call'.op = op

\* C13: start() is idempotent for every monitor variant: a second start()
\* on a started monitor raises no error and leaves the resources of a single
\* start acquired.
C13_StartIdempotent ==
    [][\A m \in Monitors :
          (CallStep(m, "start") /\ start_called[m] /\ Acquired(m)) =>
              /\ ~last_call'.raised
              /\ IF m = "power"
                 THEN \* the devices are enumerated anew by every start
                      ac_handler' = (ac_proxy' # NoDevice)
                 ELSE Acquired(m)'
      ]_vars

\* C17: after close() returns on a started monitor its resources are
\* released and is_started() is false.
C17_CloseStops ==
    [][\A m \in Monitors :
          (CallStep(m, "close") /\ Acquired(m) /\ ~last_call'.raised) =>
              (~Acquired(m)' /\ ~IsStarted(m)')
      ]_vars

\* ------------------------------------------ claims on the brightness path

RECURSIVE Pow(_, _)
Pow(b, e) == IF e = 0 THEN 1 ELSE b * Pow(b, e - 1)

\* floor(lv * level^(1/e)) for a fraction level in [0, 1]: the largest k
\* with (k / lv)^e <= level
FloorOfRoot(level, lv, e) ==
    CHOOSE k \in 0..lv :
        /\ Pow(k, e) * level.den <= Pow(lv, e) * level.num
        /\ \A j \in (k + 1)..lv :
              Pow(j, e) * level.den > Pow(lv, e) * level.num

\* C11: the number of segments set active for a model value level equals
\* floor(levels * level^(1/exponent)) (floor(levels * level) with exponent 1;
\* 11 of 16 segments for 128 of 255 with exponent 2).
C11_FilledIsFloorOfRoot ==
    (bright_model /\ levels > 0) =>
        filled = FloorOfRoot(bright_value, levels, exponent)

\* C12: on_change(str(v)) sets brightness to exactly v / max_brightness and
\* the model's value equals brightness after the call.
C12_BrightnessIsExactQuotient ==
    [][written' # written =>
          /\ brightness'.num * max_brightness = written' * brightness'.den
          /\ bright_model => bright_value' = brightness'
      ]_vars

\* 128 was written to a device whose maximum is 255
C12_Witness ==
    /\ bright_model
    /\ max_brightness = MaxBrightness
    /\ written = 128
    /\ file_data = <<"1", "2", "8", "\n">>
    /\ brightness = Fraction(128, MaxBrightness)
    /\ bright_value = brightness

\* ------------------------------------------------------- claims on Power

HasType(devs, t) == \E k \in 1..Len(devs) : devs[k] = t

\* C6 as claimed: after start(), a missing AC proxy or a missing battery
\* proxy leaves the monitor not started, without model and indicator.
C6_EitherProxyMissing ==
    (power_activated /\
       (~HasType(power_devices, 1) \/ ~HasType(power_devices, 2))) =>
        (~PowerIsStarted /\ ~power_model.exists /\ ~power_indicator)

\* C6 as amended: after start(), the monitor is started, and gets its model
\* and indicator, exactly when an AC adapter was enumerated; a missing AC
\* adapter leaves it not started and without model and indicator, a missing
\* battery alone does not.
C6_AcProxyDecides ==
    power_activated =>
        /\ PowerIsStarted = HasType(power_devices, 1)
        /\ power_model.exists = HasType(power_devices, 1)
        /\ power_indicator = HasType(power_devices, 1)
        /\ (batter_proxy # NoDevice) =
              (HasType(power_devices, 2) /\
               (~HasType(power_devices, 1) \/ ac_proxy # NoDevice))

\* an AC adapter and no battery were enumerated: the monitor is started and
\* has its model and indicator
C6_Witness ==
    /\ power_activated
    /\ power_devices = <<1, 3>>
    /\ ac_proxy = 1
    /\ batter_proxy = NoDevice
    /\ PowerIsStarted
    /\ power_model.exists
    /\ power_indicator

Tier(p) ==
    IF p >= 95 THEN "100"
    ELSE IF 75 <= p /\ p < 95 THEN "80"
    ELSE IF 55 <= p /\ p < 75 THEN "60"
    ELSE IF 35 <= p /\ p < 55 THEN "40"
    ELSE IF 15 <= p /\ p < 35 THEN "20"
    ELSE "10"

\* C10: every delivered change of Online sets connected to the new value and
\* the model icon to the tier of the cached Percentage (0 without battery or
\* cached value), in the charging variant iff connected.
C10_OnlineChangeSetsIcon ==
    [][(power_event'.bit # power_event.bit /\ power_event'.has_online
          /\ power_model.exists) =>
          LET p == IF batter_proxy = NoDevice \/ percentage = NoValue
                   THEN 0 ELSE percentage
          IN  /\ connected' = power_event'.online
              /\ power_model'.icon =
                    "battery-level-" \o Tier(p) \o
                    (IF connected' THEN "-charging" ELSE "") \o "-symbolic"
      ]_vars

\* Online = true with Percentage = 80 gave the 80-charging icon
C10_Witness ==
    /\ power_model.exists
    /\ power_event.has_online
    /\ power_event.online
    /\ connected
    /\ percentage = 80
    /\ power_model.icon = "battery-level-80-charging-symbolic"


\* ------------------------------------------------------- claims on Pulse

Quiescent == bgpc = "idle" /\ mainpc = "idle" /\ sources = {}

PendingIds(i) == {s.id : s \in {x \in sources : x.index = i}}

\* the source whose callback has begun and has not yet reached its `del`
DeletingIds(i) ==
    IF mainpc = "timeout_lock" /\ firing.index = i THEN {firing.id} ELSE {}

\* C1: a burst of N >= 1 events of one device index, each arriving less than
\* 20 ms after the previous one, ends with exactly one default-sink query,
\* executed after the last event of the burst.
C1_BurstOneQuery ==
    (Quiescent /\ events >= 1 /\ burstOk) =>
        (queries = 1 /\ eventsAtQuery = events)

\* C2: each device index has at most one pending debounce timer, and the
\* table entry of the index, when present, holds the id of that timer (a
\* timer counts as pending until its callback has deleted the entry).
C2_OnePendingTimerPerIndex ==
    \A i \in Indices :
        /\ Cardinality(PendingIds(i)) <= 1
        /\ timers[i] # NoTimer =>
              timers[i] \in PendingIds(i) \cup DeletingIds(i)

QueryStep == mainpc = "timeout_query" /\ mainpc' = "idle"

\* C7 as claimed: on a timer fire each of mute, volume and current_sink is
\* assigned only if the queried value differs from the stored one, the
\* first query after start included.
C7_AssignedOnlyIfChanged ==
    [][(QueryStep /\ outcome' = "ok") =>
          /\ ("mute" \in assigned' => mute' # mute)
          /\ ("volume" \in assigned' => volume' # volume)
          /\ ("current_sink" \in assigned' => current_sink' # current_sink)
      ]_vars

\* C7 as amended: volume and current_sink are assigned exactly when the
\* queried value differs; mute is assigned exactly when it differs or no
\* sink name has been recorded yet (current_sink is still empty), which
\* includes the first query after start; a failed query assigns nothing.
C7_AssignedIffChangedOrNoSink ==
    [][QueryStep =>
          IF outcome' = "ok"
          THEN /\ ("mute" \in assigned') = (current_sink = "" \/ mute' # mute)
               /\ ("volume" \in assigned') = (volume' # volume)
               /\ ("current_sink" \in assigned') =
                      (current_sink' # current_sink)
          ELSE assigned' = {}
      ]_vars

\* the first query after start returned the stored mute value and mute was
\* assigned all the same
C7_Witness ==
    /\ queries = 1
    /\ outcome = "ok"
    /\ mute = FALSE
    /\ volume = 0
    /\ assigned = {"mute", "current_sink"}

\* C8: a failing default-sink query is swallowed: nothing is raised, mute,
\* volume, current_sink and the model keep their values, no source is
\* scheduled by the callback, and the table no longer holds the fired timer
\* (its entry is absent or names a timer scheduled since); the next event of
\* the index schedules a fresh 20 ms timer and records it in the table.
C8_QueryFailureSwallowed ==
    [][/\ (QueryStep /\ outcome' = "failed") =>
            /\ UNCHANGED <<mute, volume, current_sink, pulse_model>>
            /\ sources' = sources
            /\ ~raised'
            /\ timers'[firing.index] # firing.id
            /\ timers'[firing.index] \in {NoTimer} \cup PendingIds(firing.index)
       /\ (bgpc = "lock" /\ bgpc' = "idle") =>
            /\ timers'[bgIndex] = nextSourceId
            /\ nextSourceId \notin {s.id : s \in sources}
            /\ [id |-> nextSourceId, index |-> bgIndex,
                remaining |-> DEBOUNCE_MS] \in sources'
      ]_vars

\* a query has failed and an event that came after it has its fresh timer
C8_Witness ==
    /\ outcome = "failed"
    /\ mainpc = "idle"
    /\ eventsAtQuery < events
    /\ \E s \in sources :
          s.remaining = DEBOUNCE_MS /\ timers[s.index] = s.id

\* C14: the listener thread only looks up, cancels and inserts debounce
\* timers: no step of _on_pulse_event_change uses the query connection or
\* changes volume, mute, current_sink or the status model, and every such
\* change is a step of the main loop (the timer callback at its query, or
\* new_model in the activation callback).
C14_ThreadOnlySchedules ==
    [][/\ (bgpc' # bgpc) =>
            /\ UNCHANGED <<volume, mute, current_sink, pulse_model, queries,
                           mainpc, firing>>
            /\ bgpc = "lock" =>
                  /\ sources' \subseteq
                        sources \cup {[id |-> nextSourceId, index |-> bgIndex,
                                       remaining |-> DEBOUNCE_MS]}
                  /\ \A x \in sources \ sources' : x.id = timers[bgIndex]
       /\ (<<volume, mute, current_sink, pulse_model, queries>>' #
             <<volume, mute, current_sink, pulse_model, queries>>) =>
            /\ bgpc' = bgpc
            /\ mainpc = "timeout_query" \/ (~is_started /\ is_started')
      ]_vars

\* the listener thread stands inside its handler after the main loop has
\* queried and changed the volume
C14_Witness ==
    /\ bgpc = "lock"
    /\ events >= 2
    /\ queries >= 1
    /\ volume # 0
    /\ pulse_model.value = volume

\* C9: the model icon is the muted icon whenever mute is true and otherwise
\* the band of the volume (muted <= 0 < low <= 0.33 < medium <= 0.66 < high
\* <= 1.0 < over-amplified), and the model value is the monitor's volume.
C9_IconFollowsMuteAndVolume ==
    pulse_model.exists =>
        /\ pulse_model.value = volume
        /\ mute => pulse_model.icon = "audio-volume-muted-symbolic"
        /\ (~mute /\ volume <= 0) =>
              pulse_model.icon = "audio-volume-muted-symbolic"
        /\ (~mute /\ 0 < volume /\ volume <= 33) =>
              pulse_model.icon = "audio-volume-low-symbolic"
        /\ (~mute /\ 33 < volume /\ volume <= 66) =>
              pulse_model.icon = "audio-volume-medium-symbolic"
        /\ (~mute /\ 66 < volume /\ volume <= 100) =>
              pulse_model.icon = "audio-volume-high-symbolic"
        /\ (~mute /\ 100 < volume) =>
              pulse_model.icon = "audio-volume-overamplified-symbolic"

\* after several queries the monitor is unmuted at an over-amplified volume
C9_Witness ==
    /\ pulse_model.exists
    /\ queries >= 2
    /\ ~mute
    /\ volume = 120
    /\ pulse_model.icon = ICON_OVER
    /\ "mute" \in assigned


Init ==
    InitPulse /\ InitBrightness /\ InitPower /\ InitApi /\ InitTransition
    /\ InitBar /\ InitApp /\ InitConfig

\* the defaults of load_configuration for the animations
DefaultAnimation == reveal_duration = 20 /\ hide_duration = 20

\* one brightness device with the default levels and exponent
DefaultBar == max_brightness = MaxBrightness /\ levels = 16 /\ exponent = 1

\* the monitors never read the window's configured durations, nor does any
\* but the brightness monitor read the brightness configuration: their
\* specifications start from the default configuration
InitMonitors == Init /\ DefaultAnimation /\ DefaultBar

InitWindow == Init /\ DefaultBar

InitBrightnessPath == Init /\ DefaultAnimation

SpecPulse == InitMonitors /\ [][NextPulse]_vars

SpecPower == InitMonitors /\ [][NextPower]_vars

SpecLifecycle == InitMonitors /\ [][NextLifecycle]_vars

SpecTransition == InitWindow /\ [][NextTransition]_vars

SpecBrightness == InitBrightnessPath /\ [][NextBrightness]_vars

SpecApp == InitWindow /\ [][NextApp]_vars

SpecConfig == InitMonitors /\ [][NextConfig]_vars

\* the main loop dispatches every due source and time passes
SpecAppFair ==
    /\ SpecApp
    /\ WF_vars(\E s \in hide_sources : Hide(s) /\ UNCHANGED cfgVars)
    /\ WF_vars(AppIdleAdd /\ UNCHANGED cfgVars)
    /\ WF_vars(\E a \in anim_sources : AppDoAnimation(a) /\ UNCHANGED cfgVars)
    /\ WF_vars(AppTick /\ UNCHANGED cfgVars)

====
